---- MODULE Spec2Model ----
(***************************************************************************)
(* RAG chat-with-PDF server: the document registry and the background      *)
(* ingestion pipeline (uploadDocument, processDocument, storeVectors) and  *)
(* the query pipeline (handleQuery, processQuery, transformQuery,          *)
(* searchDocuments, generateAnswer).                                       *)
(*                                                                         *)
(* The server is one Node.js process: a handler runs without interruption  *)
(* up to its next awaited external call, so every action below is the code *)
(* between two awaited calls, together with the call it ends in.           *)
(*                                                                         *)
(* An error message is a sequence of text fragments whose concatenation is *)
(* the JavaScript string; wrapping an error prepends the wrapper's         *)
(* fragments, and String.includes is membership of a fragment.             *)
(***************************************************************************)
EXTENDS Integers, Sequences, FiniteSets, TLC

\* ---------------------------------------------------------------- bounds
MaxDocs == 1        \* uploads accepted in one process lifetime
MaxPages == 3       \* pages of the larger PDF
MaxBatches == 1     \* the larger PDF fills MaxBatches upsert batches and one chunk more
MaxHistory == 1     \* conversation turns sent with a query
MaxStored == 2      \* documents that direct calls of the vector store name

\* ------------------------------------------------------ program constants
batchSize == 100
maxRetries == 1
topK == 10
questionLimit == 5000
historyLimit == 100

DocIds == 1..MaxDocs

\* ------------------------------------------------------------- messages
Wrap(prefix, message) == prefix \o message

Includes(message, fragment) == \E k \in DOMAIN message : message[k] = fragment

GeminiKeyNotSet == <<"GEMINI_API_KEY environment variable is not set">>
PineconeKeyNotSet == <<"PINECONE_API_KEY environment variable is not set">>
IndexNameNotSet == <<"PINECONE_INDEX_NAME environment variable is not set">>
FileNotFound == <<"File not found at path: ">>
ExtractFailed == <<"Failed to extract text from PDF or PDF is empty">>
NoChunksCreated == <<"No chunks created from document">>
NoChunksProvided == <<"No chunks provided for storage">>
NoVectorsProvided == <<"No vectors provided for storage">>
CountMismatch == <<"Number of chunks and vectors must match">>
QueryVectorRequired == <<"Query vector is required">>
FailedToStore == <<"Failed to store vectors: ">>
FailedToProcess == <<"Failed to process PDF document: ">>
FailedToEmbed == <<"Failed to generate embedding: ">>
FailedToEmbedTexts == <<"Failed to generate embeddings: ">>
FailedToSearchVectors == <<"Failed to ", "search", " vectors: ">>
FailedToSearchDocuments == <<"Failed to ", "search", " documents: ">>
FailedToGenerate == <<"Failed to generate answer: ">>

\* What the file system, the PDF parser, the embedding model or the vector
\* index may report to the ingestion when a call fails: no code reads it.
IngestErrors == {<<"ECONNRESET">>}

\* What the embedding model, the vector index or the language model may report
\* to a query when a call fails: processQuery looks for 'search' in it.
UpstreamErrors == {<<"429 Too Many Requests">>, <<"Google ", "search", " grounding unavailable">>}

FallbackAnswer == "I couldn't find any relevant information in the document to answer your question. Could you please rephrase or ask something else?"

\* ------------------------------------------------------------------ state
VARIABLES
    env,          \* names of the environment variables that are set
    clients,      \* the lazily built provider clients (module-level lets)
    documents,    \* the registry: documentId -> metadata record
    ing,          \* documentId -> the state of its processDocument call
    index,        \* the vector index: the set of the records it holds
    tempFiles,    \* documentIds whose uploaded temporary file is on disk
    q             \* the query request being served

vars == <<env, clients, documents, ing, index, tempFiles, q>>

EnvNames == {"GEMINI_API_KEY", "PINECONE_API_KEY", "PINECONE_INDEX_NAME"}

NoClients ==
    [geminiModel |-> FALSE, embeddingsInstance |-> 0, constructed |-> 0,
     pineconeClient |-> FALSE, pineconeIndex |-> FALSE]

\* ----------------------------------------------------------------- helpers
Put(map, key, value) ==
    [k \in DOMAIN map \cup {key} |-> IF k = key THEN value ELSE map[k]]

\* { ...doc, <fields> }
Spread(doc, fields) ==
    [f \in DOMAIN doc \cup DOMAIN fields |-> IF f \in DOMAIN fields THEN fields[f] ELSE doc[f]]

Min(a, b) == IF a < b THEN a ELSE b

\* --------------------------------------------------------- provider clients
\* Each getter answers [ok, c, error]: c is the clients record after the call.
getGeminiModel(c) ==
    IF c.geminiModel THEN [ok |-> TRUE, c |-> c, error |-> <<>>]
    ELSE IF "GEMINI_API_KEY" \notin env
         THEN [ok |-> FALSE, c |-> c, error |-> GeminiKeyNotSet]
         ELSE [ok |-> TRUE, c |-> [c EXCEPT !.geminiModel = TRUE], error |-> <<>>]

\* a getter that does not look at the instance it keeps
getEmbeddingsUncached(c) ==
    IF "GEMINI_API_KEY" \notin env
    THEN [ok |-> FALSE, c |-> c, error |-> GeminiKeyNotSet]
    ELSE [ok |-> TRUE, error |-> <<>>,
          c |-> [c EXCEPT !.embeddingsInstance = c.constructed + 1,
                          !.constructed = c.constructed + 1]]

\* embeddingsInstance is 0 for null and, once set, the number of the
\* GoogleGenerativeAIEmbeddings object among those the process constructed;
\* the call returns the instance that c holds after it
getEmbeddings(c) ==
    IF c.embeddingsInstance # 0 THEN [ok |-> TRUE, c |-> c, error |-> <<>>]
    ELSE IF "GEMINI_API_KEY" \notin env
         THEN [ok |-> FALSE, c |-> c, error |-> GeminiKeyNotSet]
         ELSE [ok |-> TRUE, error |-> <<>>,
               c |-> [c EXCEPT !.embeddingsInstance = c.constructed + 1,
                               !.constructed = c.constructed + 1]]

getPineconeClient(c) ==
    IF c.pineconeClient THEN [ok |-> TRUE, c |-> c, error |-> <<>>]
    ELSE IF "PINECONE_API_KEY" \notin env
         THEN [ok |-> FALSE, c |-> c, error |-> PineconeKeyNotSet]
         ELSE [ok |-> TRUE, c |-> [c EXCEPT !.pineconeClient = TRUE], error |-> <<>>]

getIndex(c) ==
    IF c.pineconeIndex THEN [ok |-> TRUE, c |-> c, error |-> <<>>]
    ELSE IF "PINECONE_INDEX_NAME" \notin env
         THEN [ok |-> FALSE, c |-> c, error |-> IndexNameNotSet]
         ELSE LET client == getPineconeClient(c)
              IN IF client.ok
                 THEN [ok |-> TRUE, c |-> [client.c EXCEPT !.pineconeIndex = TRUE], error |-> <<>>]
                 ELSE client

\* ------------------------------------------------------------ the registry
\* The metadata stored at upload acceptance (uploadDate and fileSize, which no
\* code path reads again, are left out).
InitialMetadata(documentId) ==
    [documentId |-> documentId, fileName |-> "upload.pdf",
     status |-> "processing", filePath |-> documentId]

\* a .then handler that takes each count for the other
OnFulfilledSwapsCounts(doc, result) ==
    Spread(doc, [status |-> "ready", pageCount |-> result.chunkCount,
                 chunkCount |-> result.pageCount])

\* a .then handler that records the counts and forgets the status
OnFulfilledKeepsStatus(doc, result) ==
    Spread(doc, [pageCount |-> result.pageCount, chunkCount |-> result.chunkCount])

\* The record written by the .then handler of processDocument.
OnFulfilled(doc, result) ==
    Spread(doc, [status |-> "ready", pageCount |-> result.pageCount,
                 chunkCount |-> result.chunkCount])

\* a .catch handler that records the error and leaves the status
OnRejectedKeepsStatus(doc, error) ==
    Spread(doc, [error |-> error])

\* a .catch handler that records a fixed message
OnRejectedFixedMessage(doc, error) ==
    Spread(doc, [status |-> "failed", error |-> <<"Document processing failed">>])

\* The record written by the .catch handler of processDocument.
OnRejected(doc, error) ==
    Spread(doc, [status |-> "failed", error |-> error])

\* ------------------------------------------------------- the vector index
\* What pdf-parse and the text splitter give for an uploaded file: a blank PDF,
\* a PDF of one chunk, a PDF that needs more than MaxBatches batches.
MaxChunks == MaxBatches * batchSize + 1

Pdfs ==
    {[blank |-> TRUE, numpages |-> 1, chunks |-> 0],
     [blank |-> FALSE, numpages |-> 1, chunks |-> 1],
     [blank |-> FALSE, numpages |-> MaxPages, chunks |-> MaxChunks]}

\* a record whose id counts on from the number of records the index holds
RecordIdBySize(documentId, i) ==
    [id |-> <<documentId, Cardinality(index) + i>>,
     metadata |-> [documentId |-> documentId, chunkIndex |-> i]]

\* a record whose id is made of the chunk's index alone
RecordIdOfChunk(documentId, i) ==
    [id |-> <<0, i>>,
     metadata |-> [documentId |-> documentId, chunkIndex |-> i]]

\* records[i] of storeVectors, one per chunk; the pair <<documentId, i>> is the
\* id `${documentId}-chunk-${i}`
Record(documentId, i) ==
    [id |-> <<documentId, i>>,
     metadata |-> [documentId |-> documentId, chunkIndex |-> i]]

\* records.slice(i): a batch that takes all the records that are left
BatchToEnd(documentId, chunkCount, i) ==
    {Record(documentId, k) : k \in i..(chunkCount - 1)}

\* records.slice(i, i + batchSize)
Batch(documentId, chunkCount, i) ==
    {Record(documentId, k) : k \in i..(Min(i + batchSize, chunkCount) - 1)}

\* index.upsert(batch): a record replaces the record of the same id
Upsert(idx, batch) ==
    LET ids == {r.id : r \in batch}
    IN {r \in idx : r.id \notin ids} \cup batch

\* ------------------------------------------------------------- ingestion
\* an uploadDocument that awaits processDocument before it responds
NewIngestionAwaited ==
    [caller |-> "uploadDocument", pc |-> "stat", pageCount |-> 0, chunkCount |-> 0,
     vectors |-> 0, i |-> 0, calls |-> <<"fs.stat">>, raised |-> <<>>, batches |-> <<>>,
     upload |-> <<"documents.set", "processDocument">>,
     response |-> [status |-> 0, success |-> FALSE]]

\* What uploadDocument has done when it returns: the record is set, then
\* processDocument is called and runs up to its first await (fs.stat), then the
\* response is sent.  `upload` lists these steps in their order; `calls` lists
\* the external calls of the pipeline, `raised` the error a step of it threw,
\* `batches` the size and first chunk index of every batch handed to index.upsert.
NewIngestion ==
    [caller |-> "uploadDocument", pc |-> "stat", pageCount |-> 0, chunkCount |-> 0,
     vectors |-> 0, i |-> 0, calls |-> <<"fs.stat">>, raised |-> <<>>, batches |-> <<>>,
     upload |-> <<"documents.set", "processDocument", "res.status(201).json">>,
     response |-> [status |-> 201, success |-> TRUE]]

\* processDocument resolves: the .then handler of uploadDocument runs and the
\* temporary file's deletion is requested.  A storeVectors that was called by
\* itself just returns.
Resolve(d, st, c, idx) ==
    LET result == [success |-> TRUE, pageCount |-> st.pageCount,
                   chunkCount |-> st.chunkCount, documentId |-> d]
    IN /\ documents' = IF st.caller = "uploadDocument" /\ d \in DOMAIN documents
                       THEN Put(documents, d, OnFulfilled(documents[d], result))
                       ELSE documents
       /\ ing' = IF st.caller = "uploadDocument"
                 THEN Put(ing, d, [st EXCEPT !.pc = "unlink",
                                         !.calls = Append(st.calls, "fs.unlink")])
                 ELSE Put(ing, d, [st EXCEPT !.pc = "done"])
       /\ clients' = c
       /\ index' = idx

\* A step of processDocument throws `raised`: its catch wraps the message, the
\* .catch handler of uploadDocument runs and the file's deletion is requested.
\* A storeVectors that was called by itself just throws `raised`.
Reject(d, st, c, raised) ==
    LET error == Wrap(FailedToProcess, raised)
    IN /\ documents' = IF st.caller = "uploadDocument" /\ d \in DOMAIN documents
                       THEN Put(documents, d, OnRejected(documents[d], error))
                       ELSE documents
       /\ ing' = IF st.caller = "uploadDocument"
                 THEN Put(ing, d, [st EXCEPT !.pc = "unlink", !.raised = raised,
                                         !.calls = Append(st.calls, "fs.unlink")])
                 ELSE Put(ing, d, [st EXCEPT !.pc = "done", !.raised = raised])
       /\ clients' = c
       /\ index' = index

\* uploadDocument: the request carries no file, an empty file, a file without
\* a name, or a PDF.  A rejected upload leaves the registry alone (its own
\* temporary file is unlinked and the error goes to the error handler).
UploadFiles == {"none", "empty", "unnamed", "pdf"}

UploadRejected(file) ==
    /\ file \in {"none", "empty", "unnamed"}
    /\ UNCHANGED vars

\* an uploadDocument that unlinks the file in a finally block: the file is
\* gone when the request ends, with the pipeline it started still running
UploadUnlinksInFinally(ids) ==
    LET documentId == Cardinality(DOMAIN documents) + 1
    IN /\ documentId \in ids
       /\ documents' = Put(documents, documentId, InitialMetadata(documentId))
       /\ ing' = Put(ing, documentId, NewIngestion)
       /\ tempFiles' = tempFiles \ {documentId}
       /\ UNCHANGED <<env, clients, index, q>>

Upload(ids) ==
    LET documentId == Cardinality(DOMAIN documents) + 1
    IN /\ documentId \in ids
       /\ documents' = Put(documents, documentId, InitialMetadata(documentId))
       /\ ing' = Put(ing, documentId, NewIngestion)
       /\ tempFiles' = tempFiles \cup {documentId}
       /\ UNCHANGED <<env, clients, index, q>>

UploadDocument == Upload(DocIds)

\* await fs.stat(filePath)
Stat(d, ok) ==
    /\ d \in DOMAIN ing /\ ing[d].pc = "stat"
    /\ IF ok
       THEN /\ ing' = [ing EXCEPT ![d].pc = "import", ![d].calls = Append(@, "import")]
            /\ UNCHANGED <<documents, clients, index>>
       ELSE Reject(d, ing[d], clients, FileNotFound)
    /\ UNCHANGED <<env, tempFiles, q>>

\* await import('pdf-parse')
Import(d, outcome) ==
    /\ d \in DOMAIN ing /\ ing[d].pc = "import"
    /\ IF outcome = <<>>
       THEN /\ ing' = [ing EXCEPT ![d].pc = "readFile", ![d].calls = Append(@, "fs.readFile")]
            /\ UNCHANGED <<documents, clients, index>>
       ELSE Reject(d, ing[d], clients, outcome)
    /\ UNCHANGED <<env, tempFiles, q>>

\* await fs.readFile(filePath)
ReadFile(d, outcome) ==
    /\ d \in DOMAIN ing /\ ing[d].pc = "readFile"
    /\ IF outcome = <<>>
       THEN /\ ing' = [ing EXCEPT ![d].pc = "pdfParse", ![d].calls = Append(@, "pdfParse")]
            /\ UNCHANGED <<documents, clients, index>>
       ELSE Reject(d, ing[d], clients, outcome)
    /\ UNCHANGED <<env, tempFiles, q>>

\* await pdfParse(dataBuffer), the text check, the split and the start of the
\* embedding call
PdfParse(d, outcome, pdf) ==
    /\ d \in DOMAIN ing /\ ing[d].pc = "pdfParse"
    /\ IF outcome # <<>> THEN Reject(d, ing[d], clients, outcome)
       ELSE IF pdf.blank THEN Reject(d, ing[d], clients, ExtractFailed)
       ELSE LET st == [ing[d] EXCEPT !.pageCount = pdf.numpages,
                                     !.chunkCount = pdf.chunks,
                                     !.calls = Append(@, "splitDocuments")]
                e == getEmbeddings(clients)
            IN IF st.chunkCount = 0 THEN Reject(d, st, clients, NoChunksCreated)
               ELSE IF ~e.ok THEN Reject(d, st, e.c, e.error)
               ELSE /\ ing' = [ing EXCEPT ![d] = [st EXCEPT !.pc = "embedDocuments",
                                    !.calls = Append(st.calls, "embedDocuments")]]
                    /\ clients' = e.c
                    /\ UNCHANGED <<documents, index>>
    /\ UNCHANGED <<env, tempFiles, q>>

\* what the history keeps of a batch handed to index.upsert: its size and the
\* chunk index of its first record
Sent(batch) ==
    LET indexes == {r.metadata.chunkIndex : r \in batch}
    IN [from |-> CHOOSE k \in indexes : \A j \in indexes : k <= j,
        size |-> Cardinality(batch)]

\* a storeVectors that does not compare the two lengths
StoreVectorsUnmatched(d, st, c) ==
    IF st.chunkCount = 0 THEN Reject(d, st, c, Wrap(FailedToStore, NoChunksProvided))
    ELSE IF st.vectors = 0 THEN Reject(d, st, c, Wrap(FailedToStore, NoVectorsProvided))
    ELSE LET x == getIndex(c)
         IN IF ~x.ok THEN Reject(d, st, x.c, Wrap(FailedToStore, x.error))
            ELSE /\ ing' = Put(ing, d,
                               [st EXCEPT !.pc = "upsert", !.i = 0,
                                          !.calls = Append(st.calls, "index.upsert"),
                                          !.batches = <<Sent(Batch(d, st.chunkCount, 0))>>])
                 /\ clients' = x.c
                 /\ UNCHANGED <<documents, index>>

\* storeVectors up to its first index.upsert
StoreVectors(d, st, c) ==
    IF st.chunkCount = 0 THEN Reject(d, st, c, Wrap(FailedToStore, NoChunksProvided))
    ELSE IF st.vectors = 0 THEN Reject(d, st, c, Wrap(FailedToStore, NoVectorsProvided))
    ELSE IF st.chunkCount # st.vectors THEN Reject(d, st, c, Wrap(FailedToStore, CountMismatch))
    ELSE LET x == getIndex(c)
         IN IF ~x.ok THEN Reject(d, st, x.c, Wrap(FailedToStore, x.error))
            ELSE /\ ing' = Put(ing, d,
                               [st EXCEPT !.pc = "upsert", !.i = 0,
                                          !.calls = Append(st.calls, "index.upsert"),
                                          !.batches = <<Sent(Batch(d, st.chunkCount, 0))>>])
                 /\ clients' = x.c
                 /\ UNCHANGED <<documents, index>>

\* await embeddings.embedDocuments(texts): it fails, or answers with `vectors`
\* vectors
EmbedDocuments(d, outcome, vectors) ==
    /\ d \in DOMAIN ing /\ ing[d].pc = "embedDocuments"
    /\ IF outcome # <<>> THEN Reject(d, ing[d], clients, outcome)
       ELSE StoreVectors(d, [ing[d] EXCEPT !.vectors = vectors], clients)
    /\ UNCHANGED <<env, tempFiles, q>>

\* storeVectors(documentId, chunks, vectors, fileName) called by itself, as the
\* module exports it, with `chunks` chunks and `vectors` vectors; calls that
\* name the same document follow one another
CallStoreVectors(d, chunks, vectors) ==
    /\ IF d \in DOMAIN ing THEN ing[d].pc = "done" ELSE TRUE
    /\ StoreVectors(d, [NewIngestion EXCEPT !.caller = "direct", !.chunkCount = chunks,
                                            !.vectors = vectors, !.calls = <<>>,
                                            !.upload = <<>>,
                                            !.response = [status |-> 0, success |-> FALSE]],
                    clients)
    /\ UNCHANGED <<env, tempFiles, q>>

\* await index.upsert(batch) of the batch that starts at record i
UpsertBatch(d, outcome) ==
    /\ d \in DOMAIN ing /\ ing[d].pc = "upsert"
    /\ LET st == ing[d]
           idx == Upsert(index, Batch(d, st.chunkCount, st.i))
           next == st.i + batchSize
       IN IF outcome # <<>> THEN Reject(d, st, clients, Wrap(FailedToStore, outcome))
          ELSE IF next < st.chunkCount
          THEN /\ ing' = [ing EXCEPT ![d].i = next, ![d].calls = Append(@, "index.upsert"),
                                     ![d].batches = Append(@, Sent(Batch(d, st.chunkCount, next)))]
               /\ index' = idx
               /\ UNCHANGED <<documents, clients>>
          ELSE Resolve(d, [st EXCEPT !.i = next], clients, idx)
    /\ UNCHANGED <<env, tempFiles, q>>

\* a completion handler that takes a failed deletion for a failed document
UnlinkEscalates(d, ok) ==
    /\ d \in DOMAIN ing /\ ing[d].pc = "unlink"
    /\ ing' = [ing EXCEPT ![d].pc = "done"]
    /\ tempFiles' = IF ok THEN tempFiles \ {d} ELSE tempFiles
    /\ documents' = IF ok THEN documents
                     ELSE Put(documents, d, OnRejected(documents[d], <<"EPERM">>))
    /\ UNCHANGED <<env, clients, index, q>>

\* fs.unlink(file.path) of a completion handler settles; a failure is logged
Unlink(d, ok) ==
    /\ d \in DOMAIN ing /\ ing[d].pc = "unlink"
    /\ ing' = [ing EXCEPT ![d].pc = "done"]
    /\ tempFiles' = IF ok THEN tempFiles \ {d} ELSE tempFiles
    /\ UNCHANGED <<env, clients, documents, index, q>>

\* ------------------------------------------------------------ the query
\* A machine state s = [q, c] is the request record and the clients record;
\* the operators below run the code from one awaited call to the next.
\* q.trace lists what the current processQuery call has invoked and logged so
\* far, q.errs the errors its catch block has seen, q.delays the timers it has
\* set (ms), q.seen the document's status when the request arrived, q.matches
\* the number of matches of the last index.query that answered (-1: none yet),
\* q.matched the metadata of these matches,
\* q.context the context searchDocuments returned, if it has returned one: {}
\* or {context}, a context being its sequence of blocks, <<>> for ''.
\* no response has been sent
NoResponse ==
    [status |-> 0, success |-> FALSE, error |-> <<>>, code |-> "", answer |-> "",
     document |-> <<>>]

\* new AppError(message, statusCode, code)
AppError(message, statusCode, code) ==
    [message |-> message, statusCode |-> statusCode, code |-> code]

\* an Error that is not an AppError: it has no statusCode and no code
PlainError(message) == AppError(message, 0, "")

\* errorHandler: the response it sends for err (the fields it adds when
\* NODE_ENV is 'development' are left out)
errorHandler(err) ==
    [status |-> IF err.statusCode # 0 THEN err.statusCode ELSE 500,
     success |-> FALSE,
     error |-> IF err.message # <<>> THEN err.message ELSE <<"Internal Server Error">>,
     code |-> IF err.code # "" THEN err.code ELSE "INTERNAL_ERROR",
     answer |-> "", document |-> <<>>]

IdleQuery ==
    [pc |-> "idle", documentId |-> 0, history |-> 0, seen |-> "", code |-> "",
     attempt |-> 0, standaloneQuery |-> "", matches |-> -1, matched |-> {}, context |-> {},
     outcome |-> "", result |-> [answer |-> "", timestamp |-> ""], thrown |-> <<>>,
     trace |-> <<>>, errs |-> <<>>, delays |-> <<>>, response |-> NoResponse]

Emit(s, event) == [s EXCEPT !.q.trace = Append(@, event)]

\* processQuery returns `result`
Return(s, result) ==
    [s EXCEPT !.q.pc = "done", !.q.outcome = "returned", !.q.result = result]

\* processQuery throws `error`
Throw(s, error) ==
    [s EXCEPT !.q.pc = "done", !.q.outcome = "thrown", !.q.thrown = error]

\* a test for the index provider's name instead
IsPineconeError(error) == Includes(error, "Pinecone")

\* error.message.includes('search')
IsSearchError(error) == Includes(error, "search")

\* Math.pow(2, attempt) * 1000
WaitTime(attempt) == (2 ^ attempt) * 1000

\* a catch block that throws the first error the call saw (lastError set once)
CatchThrowsFirst(s, error) ==
    LET s1 == [s EXCEPT !.q.errs = Append(@, error)]
    IN IF IsSearchError(error) THEN Throw(s1, s1.q.errs[1])
       ELSE IF s.q.attempt = maxRetries THEN Throw(s1, s1.q.errs[1])
       ELSE [Emit(s1, "setTimeout") EXCEPT !.q.pc = "backoff",
                                           !.q.delays = Append(@, WaitTime(s.q.attempt))]

\* the catch block of processQuery's loop
Catch(s, error) ==
    LET s1 == [s EXCEPT !.q.errs = Append(@, error)]
    IN IF IsSearchError(error) THEN Throw(s1, error)
       ELSE IF s.q.attempt = maxRetries THEN Throw(s1, error)
       ELSE [Emit(s1, "setTimeout") EXCEPT !.q.pc = "backoff",
                                           !.q.delays = Append(@, WaitTime(s.q.attempt))]

\* generateAnswer up to model.invoke(prompt)
generateAnswer(s) ==
    LET s1 == Emit(s, "generateAnswer")
        g == getGeminiModel(s1.c)
    IN IF ~g.ok THEN Catch(s1, Wrap(FailedToGenerate, g.error))
       ELSE [Emit([s1 EXCEPT !.c = g.c], "model.invoke") EXCEPT !.q.pc = "generate"]

\* searchDocuments' formatting of the matches: one labelled block per match,
\* none ('' in the code) when there is no match
FormatContext(matches) == [k \in 1..matches |-> <<"[Chunk ", k, ", Relevance: ">>]

\* a check that takes only a missing (null) context for blank: searchDocuments
\* never returns one
IsBlankNullOnly(context) == FALSE

\* !context || context.trim().length === 0: a block is never blank
IsBlank(context) == Len(context) = 0

\* processQuery after searchDocuments returned `context`
WithContext(s, context) ==
    LET s1 == [s EXCEPT !.q.context = {context}]
    IN IF IsBlank(context)
       THEN Return(s1, [answer |-> FallbackAnswer, timestamp |-> "ISO-8601"])
       ELSE generateAnswer(s1)

\* a catch of searchDocuments that answers with no context
SearchFailedReturnsEmpty(s, error) == WithContext(s, <<>>)

\* the catch of searchDocuments
SearchFailed(s, error) == Catch(s, Wrap(FailedToSearchDocuments, error))

\* searchVectors up to index.query
searchVectors(s, dims) ==
    IF dims = 0 THEN SearchFailed(s, Wrap(FailedToSearchVectors, QueryVectorRequired))
    ELSE LET x == getIndex(s.c)
         IN IF ~x.ok THEN SearchFailed(s, Wrap(FailedToSearchVectors, x.error))
            ELSE [Emit([s EXCEPT !.c = x.c], "index.query") EXCEPT !.q.pc = "query"]

\* searchDocuments up to embeddings.embedQuery
searchDocuments(s, standaloneQuery) ==
    LET s1 == Emit([s EXCEPT !.q.standaloneQuery = standaloneQuery], "searchDocuments")
        e == getEmbeddings(s1.c)
    IN IF ~e.ok THEN SearchFailed(s1, Wrap(FailedToEmbed, e.error))
       ELSE [Emit([s1 EXCEPT !.c = e.c], "embedQuery") EXCEPT !.q.pc = "embed"]

\* a catch of transformQuery that throws the error on
RewriteFailedRethrows(s, error) ==
    Catch(Emit(s, "console.error: Error transforming query"), error)

\* the catch of transformQuery: the error is logged and the question returned
RewriteFailed(s, error) ==
    searchDocuments(Emit(s, "console.error: Error transforming query"), "question")

\* a transformQuery without the check of the history
transformQueryAlwaysRewrites(s) ==
    LET s1 == Emit(s, "transformQuery")
        g == getGeminiModel(s1.c)
    IN IF ~g.ok THEN RewriteFailed(s1, g.error)
       ELSE [Emit([s1 EXCEPT !.c = g.c], "model.invoke") EXCEPT !.q.pc = "rewrite"]

\* transformQuery: answers at once without history or without a model, else
\* runs up to model.invoke(prompt)
transformQuery(s) ==
    LET s1 == Emit(s, "transformQuery")
    IN IF s1.q.history = 0 THEN searchDocuments(s1, "question")
       ELSE LET g == getGeminiModel(s1.c)
            IN IF ~g.ok THEN RewriteFailed(s1, g.error)
               ELSE [Emit([s1 EXCEPT !.c = g.c], "model.invoke") EXCEPT !.q.pc = "rewrite"]

\* one iteration of processQuery's loop
Attempt(s, attempt) == transformQuery(Emit([s EXCEPT !.q.attempt = attempt], "attempt"))

\* processQuery(documentId, question, history)
processQuery(c, documentId, history, seen) ==
    Attempt([q |-> [IdleQuery EXCEPT !.documentId = documentId, !.history = history,
                                     !.seen = seen],
             c |-> c], 0)

\* a check that the record exists and no check of its status
GateWithoutStatus(docs, documentId) ==
    IF documentId \notin DOMAIN docs THEN "DOCUMENT_NOT_FOUND" ELSE ""

\* status checks that lack the one for a failed document
GateWithoutFailed(docs, documentId) ==
    IF documentId \notin DOMAIN docs THEN "DOCUMENT_NOT_FOUND"
    ELSE IF docs[documentId].status = "processing" THEN "DOCUMENT_PROCESSING"
    ELSE IF docs[documentId].status # "ready" THEN "DOCUMENT_NOT_READY"
    ELSE ""

\* status checks that lack the one for a document being processed
GateWithoutProcessing(docs, documentId) ==
    IF documentId \notin DOMAIN docs THEN "DOCUMENT_NOT_FOUND"
    ELSE IF docs[documentId].status = "failed" THEN "DOCUMENT_FAILED"
    ELSE IF docs[documentId].status \notin {"ready", "processing"} THEN "DOCUMENT_NOT_READY"
    ELSE ""

\* the status checks of handleQuery: the code of the AppError, "" to go on
Gate(docs, documentId) ==
    IF documentId \notin DOMAIN docs THEN "DOCUMENT_NOT_FOUND"
    ELSE IF docs[documentId].status = "processing" THEN "DOCUMENT_PROCESSING"
    ELSE IF docs[documentId].status = "failed" THEN "DOCUMENT_FAILED"
    ELSE IF docs[documentId].status # "ready" THEN "DOCUMENT_NOT_READY"
    ELSE ""

Seen(documentId) ==
    IF documentId \in DOMAIN documents THEN documents[documentId].status ELSE "absent"

Machine == [q |-> q, c |-> clients]

\* the AppError that handleQuery throws for a document it does not serve
GateError(docs, documentId) ==
    LET code == Gate(docs, documentId)
    IN IF code = "DOCUMENT_NOT_FOUND" THEN AppError(<<"Document not found">>, 404, code)
       ELSE IF code = "DOCUMENT_PROCESSING"
       THEN AppError(<<"Document is still being processed. Please try again in a moment.">>,
                     400, code)
       ELSE IF code = "DOCUMENT_FAILED"
       THEN AppError(<<"Document processing failed: ">>
                        \o (IF "error" \in DOMAIN docs[documentId] /\ docs[documentId].error # <<>>
                            THEN docs[documentId].error ELSE <<"Unknown error">>)
                        \o <<". Please upload the document again.">>,
                     400, code)
       ELSE AppError(<<"Document is not ready for queries">>, 400, code)

\* handleQuery after processQuery settled: res.json of the result, or its catch
\* hands the error to errorHandler; a call from elsewhere sends no response
Respond(r) ==
    IF r.pc # "done" \/ r.seen = "direct" THEN r
    ELSE IF r.outcome = "returned"
    THEN [r EXCEPT !.response = [NoResponse EXCEPT !.status = 200, !.success = TRUE,
                                                   !.answer = r.result.answer]]
    ELSE [r EXCEPT !.response = errorHandler(PlainError(r.thrown))]

Becomes(s) == q' = Respond(s.q) /\ clients' = s.c

\* handleQuery: a query request arrives (one request is followed at a time)
HandleQuery(documentId, history) ==
    /\ q.pc \in {"idle", "done"}
    /\ LET code == Gate(documents, documentId)
       IN IF code # ""
          THEN /\ q' = [IdleQuery EXCEPT !.pc = "done", !.outcome = "rejected",
                                         !.code = code, !.documentId = documentId,
                                         !.history = history, !.seen = Seen(documentId),
                                         !.response = errorHandler(GateError(documents, documentId))]
               /\ clients' = clients
          ELSE Becomes(processQuery(clients, documentId, history, Seen(documentId)))
    /\ UNCHANGED <<env, documents, ing, index, tempFiles>>

\* processQuery called by itself, as the module exports it
CallProcessQuery(documentId, history) ==
    /\ q.pc \in {"idle", "done"}
    /\ Becomes(processQuery(clients, documentId, history, "direct"))
    /\ UNCHANGED <<env, documents, ing, index, tempFiles>>

\* ------------------------------------------------------ the query route
\* A request body, as validateQueryRequest reads it.  documentId: missing, not
\* a string, a string that is no UUID, or the UUID of document `id`.
\* question: missing (or ''), not a string, or a string of `length`
\* characters, `trimmed` of them left by trim().  history: undefined, not an
\* array, or an array of `length` items of which item `bad` (0: none) is the
\* first that is not a turn, for the reason `item`.
DocumentIdInputs ==
    {[kind |-> k, id |-> 0] : k \in {"missing", "not a string", "not a UUID"}}
        \cup {[kind |-> "UUID", id |-> d] : d \in 1..(MaxDocs + 1)}

QuestionInputs ==
    {[kind |-> "missing", length |-> 0, trimmed |-> 0],
     [kind |-> "not a string", length |-> 0, trimmed |-> 0],
     [kind |-> "string", length |-> 3, trimmed |-> 0],
     [kind |-> "string", length |-> questionLimit, trimmed |-> questionLimit],
     [kind |-> "string", length |-> questionLimit + 1, trimmed |-> questionLimit + 1]}

ItemFaults == {"not an object", "no role or content", "role", "content"}

HistoryLengths == {0, MaxHistory, historyLimit, historyLimit + 1}

HistoryInputs ==
    {[kind |-> k, length |-> 0, bad |-> 0, item |-> ""] : k \in {"undefined", "not an array"}}
        \cup {[kind |-> "array", length |-> n, bad |-> 0, item |-> ""] : n \in HistoryLengths}
        \cup {h \in [kind : {"array"}, length : {MaxHistory, historyLimit + 1},
                      bad : {1, MaxHistory, historyLimit + 1}, item : ItemFaults] :
                 h.bad \in {1, h.length}}

Bodies == [documentId : DocumentIdInputs, question : QuestionInputs, history : HistoryInputs]

\* the checks of documentId: the message of the AppError, <<>> to go on
validateDocumentId(documentId) ==
    IF documentId.kind = "missing" THEN <<"Document ID is required">>
    ELSE IF documentId.kind = "not a string" THEN <<"Document ID must be a string">>
    ELSE IF documentId.kind # "UUID" THEN <<"Invalid document ID format">>
    ELSE <<>>

\* the checks of question
validateQuestion(question) ==
    IF question.kind = "missing" THEN <<"Question is required">>
    ELSE IF question.kind # "string" THEN <<"Question must be a string">>
    ELSE IF question.trimmed = 0 THEN <<"Question cannot be empty">>
    ELSE IF question.length > questionLimit
    THEN <<"Question is too long (maximum 5000 characters)">>
    ELSE <<>>

\* the loop over the items of history: the first item that is not a turn,
\* named by its index i in the array
validateItems(history) ==
    LET i == ToString(history.bad - 1)
    IN IF history.bad = 0 THEN <<>>
       ELSE IF history.item = "not an object"
       THEN <<"History item ", i, " must be an object">>
       ELSE IF history.item = "no role or content"
       THEN <<"History item ", i, " must have 'role' and 'content' fields">>
       ELSE IF history.item = "role"
       THEN <<"History item ", i, " role must be 'user' or 'model'">>
       ELSE <<"History item ", i, " content must be a string">>

\* a limit that lets one turn more through
TooLongOffByOne(history) == history.length > historyLimit + 1

\* history.length > 100
TooLong(history) == history.length > historyLimit

\* the checks of history
validateHistory(history) ==
    IF history.kind = "undefined" THEN <<>>
    ELSE IF history.kind # "array" THEN <<"History must be an array">>
    ELSE IF validateItems(history) # <<>> THEN validateItems(history)
    ELSE IF TooLong(history) THEN <<"History is too long (maximum 100 messages)">>
    ELSE <<>>

\* validateQueryRequest: the message of the AppError it hands to next, <<>>
\* when it calls next() and the request goes on to handleQuery
validateQueryRequest(body) ==
    IF validateDocumentId(body.documentId) # <<>> THEN validateDocumentId(body.documentId)
    ELSE IF validateQuestion(body.question) # <<>> THEN validateQuestion(body.question)
    ELSE validateHistory(body.history)

\* router.post('/', validateQueryRequest, handleQuery): a query request arrives
PostQuery(body) ==
    LET message == validateQueryRequest(body)
    IN IF message # <<>>
       THEN /\ q.pc \in {"idle", "done"}
            /\ q' = [IdleQuery EXCEPT !.pc = "done", !.outcome = "rejected",
                                      !.code = "VALIDATION_ERROR", !.thrown = message,
                                      !.documentId = body.documentId.id,
                                      !.history = body.history.length,
                                      !.response = errorHandler(AppError(message, 400,
                                                                         "VALIDATION_ERROR"))]
            /\ UNCHANGED <<env, clients, documents, ing, index, tempFiles>>
       ELSE HandleQuery(body.documentId.id, body.history.length)

\* await model.invoke(prompt) of transformQuery
InvokeRewrite(outcome) ==
    /\ q.pc = "rewrite"
    /\ Becomes(IF outcome # <<>> THEN RewriteFailed(Machine, outcome)
               ELSE searchDocuments(Machine, "standalone"))
    /\ UNCHANGED <<env, documents, ing, index, tempFiles>>

\* await embeddings.embedQuery(text) of embedText: it fails, or answers with
\* a vector of `dims` numbers
EmbedQuery(outcome, dims) ==
    /\ q.pc = "embed"
    /\ Becomes(IF outcome # <<>> THEN SearchFailed(Machine, Wrap(FailedToEmbed, outcome))
               ELSE searchVectors(Machine, dims))
    /\ UNCHANGED <<env, documents, ing, index, tempFiles>>

\* a query sent without the filter
Unfiltered(idx, documentId) == idx

\* the records the index holds for a document (filter documentId $eq)
Filtered(idx, documentId) == {r \in idx : r.metadata.documentId = documentId}

\* How the index may rank the records that pass the filter by similarity to
\* the query vector (the vectors are not modelled): it finds none similar, or
\* the similarity falls, or rises, with the order of the ids.
Rankings == {"none", "ascending", "descending"}

\* a number that orders the record ids by document, then by chunk
Key(id) == id[1] * (MaxChunks + 1) + id[2]

\* the k least of a set of numbers
Lowest(keys, k) ==
    IF Cardinality(keys) <= k THEN keys
    ELSE LET kth == CHOOSE x \in keys : Cardinality({y \in keys : y <= x}) = k
         IN {x \in keys : x <= kth}

\* the k of `records` that the ranking puts first
Nearest(records, k, ranking) ==
    IF ranking = "none" THEN {}
    ELSE IF ranking = "ascending"
    THEN LET chosen == Lowest({Key(r.id) : r \in records}, k)
         IN {r \in records : Key(r.id) \in chosen}
    ELSE LET chosen == Lowest({0 - Key(r.id) : r \in records}, k)
         IN {r \in records : (0 - Key(r.id)) \in chosen}

\* await index.query(...) of searchVectors: it fails, or answers with the
\* topK nearest of the document's records
IndexQuery(outcome, ranking) ==
    /\ q.pc = "query"
    /\ LET nearest == Nearest(Filtered(index, q.documentId), topK, ranking)
           matches == Cardinality(nearest)
       IN Becomes(IF outcome # <<>>
                  THEN SearchFailed(Machine, Wrap(FailedToSearchVectors, outcome))
                  ELSE WithContext([Machine EXCEPT !.q.matches = matches,
                                                   !.q.matched = {r.metadata : r \in nearest}],
                                   FormatContext(matches)))
    /\ UNCHANGED <<env, documents, ing, index, tempFiles>>

\* await model.invoke(prompt) of generateAnswer
InvokeGenerate(outcome) ==
    /\ q.pc = "generate"
    /\ Becomes(IF outcome # <<>> THEN Catch(Machine, Wrap(FailedToGenerate, outcome))
               ELSE Return(Machine, [answer |-> "answer", timestamp |-> "ISO-8601"]))
    /\ UNCHANGED <<env, documents, ing, index, tempFiles>>

\* the backoff timer fires and the loop goes to its next iteration
Backoff ==
    /\ q.pc = "backoff"
    /\ Becomes(Attempt(Machine, q.attempt + 1))
    /\ UNCHANGED <<env, documents, ing, index, tempFiles>>

\* ------------------------------------------------- the document endpoint
\* const { filePath, ...documentData } = document
Without(doc, field) == [f \in DOMAIN doc \ {field} |-> doc[f]]

\* a getDocument that deletes filePath from the record it found
GetDocumentDeletesPath(id) ==
    /\ q.pc \in {"idle", "done"}
    /\ id \in DOMAIN documents
    /\ documents' = Put(documents, id, Without(documents[id], "filePath"))
    /\ q' = [IdleQuery EXCEPT
                !.pc = "done", !.documentId = id, !.seen = Seen(id),
                !.trace = <<"getDocument">>, !.outcome = "returned",
                !.response = [NoResponse EXCEPT !.status = 200, !.success = TRUE,
                                                !.document = documents'[id]]]
    /\ UNCHANGED <<env, clients, ing, index, tempFiles>>

\* getDocument: GET /api/documents/:id (q follows this request as it follows
\* a query)
GetDocument(id) ==
    /\ q.pc \in {"idle", "done"}
    /\ q' = IF id \notin DOMAIN documents
            THEN [IdleQuery EXCEPT
                     !.pc = "done", !.documentId = id, !.seen = Seen(id),
                     !.trace = <<"getDocument">>, !.outcome = "rejected",
                     !.code = "DOCUMENT_NOT_FOUND",
                     !.response = errorHandler(AppError(<<"Document not found">>, 404,
                                                        "DOCUMENT_NOT_FOUND"))]
            ELSE [IdleQuery EXCEPT
                     !.pc = "done", !.documentId = id, !.seen = Seen(id),
                     !.trace = <<"getDocument">>, !.outcome = "returned",
                     !.response = [NoResponse EXCEPT
                                      !.status = 200, !.success = TRUE,
                                      !.document = Without(documents[id], "filePath")]]
    /\ UNCHANGED <<env, clients, documents, ing, index, tempFiles>>

\* ------------------------------------------- the embedding service, called
\* A call of one of the exports of embeddingService.js from outside the
\* pipeline; q keeps the call: its name first in the trace, and how it ended.
Called(name) == [IdleQuery EXCEPT !.seen = "direct", !.trace = <<name>>]

\* getEmbeddings()
CallGetEmbeddings ==
    LET e == getEmbeddings(clients)
    IN /\ q.pc \in {"idle", "done"}
       /\ clients' = e.c
       /\ q' = [Called("getEmbeddings") EXCEPT
                   !.pc = "done",
                   !.outcome = IF e.ok THEN "returned" ELSE "thrown",
                   !.thrown = e.error]
       /\ UNCHANGED <<env, documents, ing, index, tempFiles>>

\* embedText(text) or embedTexts(texts) up to the call it awaits: the catch
\* block puts `prefix` before the message of an error of getEmbeddings
CallEmbed(name, prefix, awaited) ==
    LET e == getEmbeddings(clients)
    IN /\ q.pc \in {"idle", "done"}
       /\ clients' = e.c
       /\ q' = IF e.ok
               THEN [Called(name) EXCEPT !.pc = name, !.trace = Append(@, awaited)]
               ELSE [Called(name) EXCEPT !.pc = "done", !.outcome = "thrown",
                                         !.thrown = Wrap(prefix, e.error)]
       /\ UNCHANGED <<env, documents, ing, index, tempFiles>>

CallEmbedText == CallEmbed("embedText", FailedToEmbed, "embedQuery")

CallEmbedTexts == CallEmbed("embedTexts", FailedToEmbedTexts, "embedDocuments")

\* the call that embedText or embedTexts awaits answers or fails
EmbedSettles(outcome) ==
    /\ q.pc \in {"embedText", "embedTexts"}
    /\ q' = IF outcome = <<>>
            THEN [q EXCEPT !.pc = "done", !.outcome = "returned"]
            ELSE [q EXCEPT !.pc = "done", !.outcome = "thrown",
                           !.thrown = Wrap(IF q.pc = "embedText" THEN FailedToEmbed
                                           ELSE FailedToEmbedTexts, outcome)]
    /\ UNCHANGED <<env, clients, documents, ing, index, tempFiles>>

\* process.env changes between the calls: a variable is set or deleted
Setenv(name) ==
    /\ name \notin env
    /\ env' = env \cup {name}
    /\ UNCHANGED <<clients, documents, ing, index, tempFiles, q>>

Unsetenv(name) ==
    /\ name \in env
    /\ env' = env \ {name}
    /\ UNCHANGED <<clients, documents, ing, index, tempFiles, q>>

\* ---------------------------------------------------------- specifications
Outcomes == {<<>>} \cup UpstreamErrors

IngestOutcomes == {<<>>} \cup IngestErrors

\* a query comes without history or with MaxHistory turns of it
Histories == {0, MaxHistory}

Init ==
    /\ env \in SUBSET EnvNames
    /\ clients = NoClients
    /\ documents = <<>>
    /\ ing = <<>>
    /\ index = {}
    /\ tempFiles = {}
    /\ q = IdleQuery

\* the steps of the ingestion of one document
IngestOf(d) ==
    \/ \E ok \in BOOLEAN : Stat(d, ok)
    \/ \E outcome \in IngestOutcomes : Import(d, outcome)
    \/ \E outcome \in IngestOutcomes : ReadFile(d, outcome)
    \/ \E outcome \in IngestOutcomes, pdf \in Pdfs : PdfParse(d, outcome, pdf)
    \/ \E outcome \in IngestOutcomes, short \in BOOLEAN :
          EmbedDocuments(d, outcome, ing[d].chunkCount - (IF short THEN 1 ELSE 0))
    \/ \E outcome \in IngestOutcomes : UpsertBatch(d, outcome)
    \/ \E ok \in BOOLEAN : Unlink(d, ok)

Ingest == \E d \in DocIds : IngestOf(d)

Query ==
    \/ \E outcome \in Outcomes : InvokeRewrite(outcome)
    \/ \E outcome \in Outcomes, dims \in {0, 768} : EmbedQuery(outcome, dims)
    \/ \E outcome \in Outcomes, ranking \in Rankings : IndexQuery(outcome, ranking)
    \/ \E outcome \in Outcomes : InvokeGenerate(outcome)
    \/ Backoff

Next ==
    \/ \E file \in UploadFiles : UploadRejected(file)
    \/ UploadDocument
    \/ Ingest
    \/ \E d \in DocIds, h \in Histories : HandleQuery(d, h)
    \/ Query

Spec == Init /\ [][Next]_vars

\* The query service by itself: processQuery is called on a fresh process whose
\* registry is empty, while the index, which outlives the process, is empty or
\* holds the one chunk of document 1.
InitQuery ==
    /\ env \in SUBSET EnvNames
    /\ clients = NoClients
    /\ documents = <<>>
    /\ ing = <<>>
    /\ index \in {{}, Upsert({}, Batch(1, 1, 0))}
    /\ tempFiles = {}
    /\ q = IdleQuery

NextQuery ==
    \/ \E d \in DocIds, h \in Histories : CallProcessQuery(d, h)
    \/ Query

SpecQuery == InitQuery /\ [][NextQuery]_vars

\* The uploads and their ingestions by themselves, every awaited call of an
\* ingestion settling in the end: it answers or it fails.
NextIngest ==
    \/ \E file \in UploadFiles : UploadRejected(file)
    \/ UploadDocument
    \/ Ingest

SpecIngest ==
    /\ Init
    /\ [][NextIngest]_vars
    /\ \A d \in DocIds : WF_vars(IngestOf(d))

\* the numbers of chunks a caller hands to storeVectors
ChunkCounts == {pdf.chunks : pdf \in Pdfs}

\* The vector store by itself: storeVectors is called on a fresh process, again
\* and again, with any numbers of chunks and vectors.
Store ==
    \E d \in DocIds :
        \/ \E chunks \in ChunkCounts, vectors \in ChunkCounts :
              CallStoreVectors(d, chunks, vectors)
        \/ \E outcome \in IngestOutcomes : UpsertBatch(d, outcome)

SpecStore == Init /\ [][Store]_vars

\* Documents that share the index: each of StoreIds is stored once, by a call
\* of storeVectors with as many vectors as chunks, whose upserts may fail, while
\* processQuery searches them with the embedding model, the index and the
\* language model answering.
StoreIds == 1..MaxStored

InitSearch ==
    /\ env = EnvNames
    /\ clients = NoClients
    /\ documents = <<>>
    /\ ing = <<>>
    /\ index = {}
    /\ tempFiles = {}
    /\ q = IdleQuery

StoreOnce ==
    \E d \in StoreIds :
        \/ \E chunks \in ChunkCounts \ {0} :
              d \notin DOMAIN ing /\ CallStoreVectors(d, chunks, chunks)
        \/ \E outcome \in IngestOutcomes : UpsertBatch(d, outcome)

Search ==
    \/ \E d \in StoreIds : CallProcessQuery(d, 0)
    \/ EmbedQuery(<<>>, 768)
    \/ \E ranking \in Rankings : IndexQuery(<<>>, ranking)
    \/ InvokeGenerate(<<>>)

NextSearch ==
    \/ StoreOnce
    \/ Search

SpecSearch == InitSearch /\ [][NextSearch]_vars

\* The query route: requests with any body of Bodies arrive at POST /api/query
\* while the documents are uploaded and ingested, every call the ingestion and
\* the query await answering.
IngestWell ==
    \E d \in DocIds :
        \/ Stat(d, TRUE)
        \/ Import(d, <<>>)
        \/ ReadFile(d, <<>>)
        \/ PdfParse(d, <<>>, [blank |-> FALSE, numpages |-> 1, chunks |-> 1])
        \/ EmbedDocuments(d, <<>>, ing[d].chunkCount)
        \/ UpsertBatch(d, <<>>)
        \/ Unlink(d, TRUE)

QueryWell ==
    \/ InvokeRewrite(<<>>)
    \/ EmbedQuery(<<>>, 768)
    \/ \E ranking \in Rankings : IndexQuery(<<>>, ranking)
    \/ InvokeGenerate(<<>>)

NextRoute ==
    \/ UploadDocument
    \/ IngestWell
    \/ \E body \in Bodies : PostQuery(body)
    \/ QueryWell

SpecRoute == InitSearch /\ [][NextRoute]_vars

\* The embedding service by itself: its exports are called one after another
\* in one process whose environment changes between the calls.
NextEmbed ==
    \/ CallGetEmbeddings
    \/ CallEmbedText
    \/ CallEmbedTexts
    \/ \E outcome \in Outcomes : EmbedSettles(outcome)
    \/ \E name \in EnvNames : Setenv(name)
    \/ \E name \in EnvNames : Unsetenv(name)

SpecEmbed == Init /\ [][NextEmbed]_vars

\* The query service in a process whose environment changes while it runs.
NextQueryEnv ==
    \/ NextQuery
    \/ \E name \in EnvNames : Setenv(name)
    \/ \E name \in EnvNames : Unsetenv(name)

SpecQueryEnv == InitQuery /\ [][NextQueryEnv]_vars

\* The readers of the registry beside its writers: documents are uploaded and
\* ingested, with every outcome of the ingestion's calls, while queries and
\* GET requests for them arrive; the calls a query awaits answer.
NextRead ==
    \/ UploadDocument
    \/ Ingest
    \/ \E d \in 1..(MaxDocs + 1), h \in Histories : HandleQuery(d, h)
    \/ QueryWell
    \/ \E id \in 1..(MaxDocs + 1) : GetDocument(id)

SpecRead == InitSearch /\ [][NextRead]_vars

\* Documents that are ingested side by side: each of StoreIds is uploaded, a
\* PDF of more than MaxBatches batches, and its ingestion may fail at the
\* extraction or at any of its upserts, under every interleaving.
UploadSeveral == Upload(StoreIds)

IngestSeveral ==
    \E d \in StoreIds :
        \/ Stat(d, TRUE)
        \/ Import(d, <<>>)
        \/ ReadFile(d, <<>>)
        \/ \E outcome \in IngestOutcomes :
              PdfParse(d, outcome, [blank |-> FALSE, numpages |-> MaxPages, chunks |-> MaxChunks])
        \/ EmbedDocuments(d, <<>>, ing[d].chunkCount)
        \/ \E outcome \in IngestOutcomes : UpsertBatch(d, outcome)
        \/ Unlink(d, TRUE)

NextSeveral ==
    \/ UploadSeveral
    \/ IngestSeveral

SpecSeveral == InitSearch /\ [][NextSeveral]_vars

\* ------------------------------------------------------------ properties
Has(seq, e) == \E k \in DOMAIN seq : seq[k] = e

Count(seq, e) == Cardinality({k \in DOMAIN seq : seq[k] = e})

IsPrefix(a, b) == Len(a) <= Len(b) /\ SubSeq(b, 1, Len(a)) = a

Contains(message, part) ==
    \E k \in 0..(Len(message) - Len(part)) : SubSeq(message, k + 1, k + Len(part)) = part

\* what the current attempt of processQuery has invoked and logged
LastAttempt(trace) ==
    LET starts == {k \in DOMAIN trace : trace[k] = "attempt"}
    IN IF starts = {} THEN <<>>
       ELSE SubSeq(trace, CHOOSE k \in starts : \A j \in starts : j <= k, Len(trace))

\* what this step added to the trace of the request
Added ==
    IF q.pc \in {"idle", "done"} THEN q'.trace
    ELSE SubSeq(q'.trace, Len(q.trace) + 1, Len(q'.trace))

IsRetrievalFailure(error) == IsPrefix(FailedToSearchDocuments, error)

IsGenerationFailure(error) == IsPrefix(FailedToGenerate, error)

\* C1: a document enters the registry with status processing, is never
\* removed, and its record is written only while it is processing, by a write
\* that makes it ready or failed; so a ready or failed record never changes.
C1_StatusTransitions ==
    [][\A d \in DocIds :
          /\ (d \notin DOMAIN documents /\ d \in DOMAIN documents')
                => documents'[d].status = "processing"
          /\ d \in DOMAIN documents
                => /\ d \in DOMAIN documents'
                   /\ documents'[d] # documents[d]
                         => /\ documents[d].status = "processing"
                            /\ documents'[d].status \in {"ready", "failed"}]_vars

\* C1 witness: a document has become ready, its temporary file is gone, and
\* a query for it is in its second attempt.
C1_Witness ==
    \E d \in DOMAIN documents :
        /\ documents[d].status = "ready"
        /\ ing[d].pc = "done" /\ d \notin tempFiles
        /\ q.documentId = d /\ q.pc = "generate" /\ q.attempt = 1

\* C2: a query that finds its document processing is answered at once with
\* DOCUMENT_PROCESSING and invokes nothing of the pipeline.
C2_ProcessingRejected ==
    q.seen = "processing"
        => /\ q.pc = "done" /\ q.outcome = "rejected"
           /\ q.code = "DOCUMENT_PROCESSING"
           /\ q.trace = <<>> /\ q.errs = <<>> /\ q.delays = <<>>

\* C2 witness: a query was rejected for a document whose ingestion is under way.
C2_Witness ==
    /\ q.seen = "processing" /\ q.outcome = "rejected"
    /\ q.documentId \in DOMAIN ing /\ ing[q.documentId].pc = "upsert"

\* C3: an empty context ends processQuery with the fixed answer and a
\* timestamp, and generateAnswer is not invoked in that attempt.
C3_EmptyContextFallback ==
    q.context = {<<>>}
        => /\ q.pc = "done" /\ q.outcome = "returned"
           /\ q.result.answer = FallbackAnswer
           /\ q.result.timestamp # ""
           /\ ~Has(LastAttempt(q.trace), "generateAnswer")

\* C3 witness: the index answered with no match and the fixed answer was
\* returned.
C3_Witness ==
    /\ q.context = {<<>>} /\ q.result.answer = FallbackAnswer
    /\ Has(q.trace, "index.query")

\* C4 (the claim as stated): after a generation failure on the first attempt
\* processQuery sets one timer of 1000 ms and makes a second attempt, whose
\* result it returns.
C4_GenerationFailureRetried ==
    (Len(q.errs) >= 1 /\ IsGenerationFailure(q.errs[1]))
        => /\ q.delays = <<1000>>
           /\ q.pc = "backoff" \/ Count(q.trace, "attempt") = 2
           /\ q.outcome = "returned" => q.attempt = 1

\* C5 (the claim as stated): a call that ends with a retrieval failure has made
\* one attempt, set no timer and never called the generator.
C5_RetrievalFailureOneAttempt ==
    (q.outcome = "thrown" /\ IsRetrievalFailure(q.thrown))
        => /\ Count(q.trace, "attempt") = 1
           /\ q.delays = <<>>
           /\ ~Has(q.trace, "generateAnswer")

\* C5 (amended): a retrieval failure is thrown at once by the attempt it
\* occurs in: it is the last error caught, no timer follows it, no attempt
\* follows it and the generator is not called in that attempt; on the first
\* attempt this is one attempt, no timer and no generator call at all.
C5_RetrievalFailureSurfaced ==
    \A k \in DOMAIN q.errs :
        IsRetrievalFailure(q.errs[k])
            => /\ k = Len(q.errs)
               /\ q.pc = "done" /\ q.outcome = "thrown" /\ q.thrown = q.errs[k]
               /\ Count(q.trace, "attempt") = k
               /\ Len(q.delays) = k - 1
               /\ ~Has(LastAttempt(q.trace), "generateAnswer")

\* C5 witness: the index query of the first attempt failed and the error was
\* thrown.
C5_Witness ==
    /\ q.outcome = "thrown" /\ IsRetrievalFailure(q.thrown)
    /\ Len(q.errs) = 1 /\ Has(q.trace, "index.query")

\* C6: processQuery makes at most two attempts; when it throws, it throws the
\* error of its last attempt and sets no timer after it.
C6_TwoAttemptsLastError ==
    /\ Count(q.trace, "attempt") <= 2
    /\ Len(q.errs) <= 2
    /\ q.outcome = "thrown"
          => /\ q.thrown = q.errs[Len(q.errs)]
             /\ Len(q.delays) = Len(q.errs) - 1
             /\ q.trace[Len(q.trace)] # "setTimeout"

\* C6 witness: both attempts failed, with different errors.
C6_Witness ==
    /\ q.outcome = "thrown" /\ Len(q.errs) = 2
    /\ q.errs[1] # q.errs[2]

\* C7: without history transformQuery returns the question, invokes no model
\* and leaves the language-model client as it was, whatever the environment.
C7_NoHistoryNoRewrite ==
    [][(q'.history = 0 /\ Has(Added, "transformQuery"))
          => /\ q'.standaloneQuery = "question"
             /\ ~Has(Added, "model.invoke")
             /\ Has(Added, "searchDocuments")
             /\ clients'.geminiModel = clients.geminiModel]_vars

\* C7 witness: a query without history went on to retrieval with no API key
\* set.
C7_Witness ==
    /\ q.history = 0 /\ "GEMINI_API_KEY" \notin env
    /\ q.standaloneQuery = "question" /\ Has(q.trace, "searchDocuments")

\* C8: a failed rewrite is logged, the question is used as it was, retrieval
\* follows every transformQuery, and no error of the rewriter reaches the catch
\* block of processQuery.
C8_RewriteFailureSwallowed ==
    /\ \A k \in DOMAIN q.errs : IsRetrievalFailure(q.errs[k]) \/ IsGenerationFailure(q.errs[k])
    /\ Has(LastAttempt(q.trace), "console.error: Error transforming query")
          => q.standaloneQuery = "question"
    /\ \A k \in DOMAIN q.trace :
          q.trace[k] = "transformQuery"
              => \/ q.pc = "rewrite" /\ k + 1 = Len(q.trace) /\ q.trace[k + 1] = "model.invoke"
                 \/ \E j \in (k + 1)..Min(k + 3, Len(q.trace)) :
                       /\ q.trace[j] = "searchDocuments"
                       /\ \A i \in (k + 1)..(j - 1) :
                             q.trace[i] \in {"model.invoke", "console.error: Error transforming query"}

\* C8 witness: the model call of the rewrite failed and the index was queried.
C8_Witness ==
    /\ q.history > 0
    /\ Has(q.trace, "console.error: Error transforming query")
    /\ q.trace[3] = "model.invoke"
    /\ Has(q.trace, "index.query")

\* C9: the context is empty, and the fixed answer given, only when index.query
\* answered in this attempt with no match; a failed embedding or index query
\* never yields a context.
C9_NoEmptyContextOnFailure ==
    /\ q.result.answer = FallbackAnswer => q.context = {<<>>}
    /\ q.context = {<<>>}
          => /\ q.matches = 0
             /\ Has(LastAttempt(q.trace), "index.query")
             /\ Len(q.errs) = q.attempt
    /\ \A k \in DOMAIN q.errs :
          IsRetrievalFailure(q.errs[k]) => q.result.answer # FallbackAnswer

\* C9 witness: the embedding of the query failed; the error was thrown and no
\* context was produced.
C9_Witness ==
    /\ q.outcome = "thrown" /\ IsRetrievalFailure(q.thrown)
    /\ Has(q.trace, "embedQuery") /\ ~Has(q.trace, "index.query")
    /\ q.context = {}

\* the calls of a processDocument that runs to its end, for a document of n chunks
PipelineCalls(n) ==
    <<"fs.stat", "import", "fs.readFile", "pdfParse", "splitDocuments", "embedDocuments">>
        \o [k \in 1..((n + batchSize - 1) \div batchSize) |-> "index.upsert"]

\* C10: when a step of the ingestion fails, no later step runs and nothing more
\* is written to the index, the document is failed and its error holds the
\* message the step raised.
C10_FailureShortCircuits ==
    \A d \in DOMAIN ing :
        ing[d].raised # <<>>
            => LET st == ing[d]
                   made == SubSeq(st.calls, 1, Len(st.calls) - 1)
                   upserts == Count(made, "index.upsert")
               IN /\ st.pc \in {"unlink", "done"}
                  /\ st.calls[Len(st.calls)] = "fs.unlink"
                  /\ IsPrefix(made, PipelineCalls(st.chunkCount))
                  /\ st.raised \in {FileNotFound, ExtractFailed}
                        => ~Has(made, "splitDocuments") /\ ~Has(made, "embedDocuments")
                  /\ ~IsPrefix(FailedToStore, st.raised) => upserts = 0
                  /\ Cardinality(Filtered(index, d))
                        = (IF upserts = 0 THEN 0 ELSE (upserts - 1) * batchSize)
                  /\ documents[d].status = "failed"
                  /\ Contains(documents[d].error, st.raised)

\* C10 witness: the second upsert batch of a document failed: the first batch
\* stays in the index and the document is failed.
C10_Witness ==
    \E d \in DOMAIN ing :
        /\ IsPrefix(FailedToStore, ing[d].raised)
        /\ Count(ing[d].calls, "index.upsert") = 2
        /\ Cardinality(Filtered(index, d)) = batchSize
        /\ documents[d].status = "failed"

\* the position of a step in a list of steps, 0 when it is not there
Position(seq, e) ==
    IF Has(seq, e) THEN CHOOSE k \in DOMAIN seq : seq[k] = e /\ \A j \in 1..(k - 1) : seq[j] # e
    ELSE 0

BatchCount(n) == (n + batchSize - 1) \div batchSize

\* C12: storeVectors sends the n records in BatchCount(n) batches of at most
\* batchSize records, one after another in the order of the chunks; a batch
\* is sent only when every batch before it is in the index, a failed batch
\* ends the sending with the batches before it still in the index, and the
\* failure reaches the registry.
C12_SequentialBatches ==
    \A d \in DOMAIN ing :
        ing[d].batches # <<>>
            => LET st == ing[d]
                   n == st.chunkCount
                   sent == Len(st.batches)
                   committed == IF st.pc = "upsert" \/ st.raised # <<>> THEN sent - 1 ELSE sent
               IN /\ sent <= BatchCount(n)
                  /\ sent = Count(st.calls, "index.upsert")
                  /\ \A k \in 1..sent :
                        /\ st.batches[k].from = (k - 1) * batchSize
                        /\ st.batches[k].size \in 1..batchSize
                        /\ k < BatchCount(n) => st.batches[k].size = batchSize
                        /\ k = BatchCount(n) => st.batches[k].from + st.batches[k].size = n
                  /\ Filtered(index, d)
                        = {Record(d, i) : i \in 0..(Min(committed * batchSize, n) - 1)}
                  /\ (st.pc # "upsert" /\ st.raised = <<>>) => sent = BatchCount(n)
                  /\ st.raised # <<>>
                        => /\ IsPrefix(FailedToStore, st.raised)
                           /\ st.pc \in {"unlink", "done"}
                           /\ documents[d].status = "failed"
                           /\ Contains(documents[d].error, st.raised)

\* C12 witness: of the batches of a document the last one failed, a batch of
\* one record after MaxBatches full ones that stay in the index.
C12_Witness ==
    \E d \in DOMAIN ing :
        /\ Len(ing[d].batches) = MaxBatches + 1
        /\ ing[d].batches[MaxBatches + 1].size = 1
        /\ ing[d].raised # <<>>
        /\ Cardinality(Filtered(index, d)) = MaxBatches * batchSize

\* C13: every match that searchVectors returns for a document is a record of
\* that document, whatever other documents have put, or are putting, into
\* the index.
C13_SearchIsolated ==
    /\ \A m \in q.matched : m.documentId = q.documentId
    /\ q.matches >= 0 => q.matches = Cardinality(q.matched) /\ q.matches <= topK

\* C13 witness: a search returned matches for one document while the index
\* held records of another whose batches were still being written.
C13_Witness ==
    /\ q.matched # {}
    /\ \E d \in DOMAIN ing :
          /\ d # q.documentId
          /\ ing[d].pc = "upsert"
          /\ Filtered(index, d) # {}

\* the records storeVectors builds for a document of n chunks
Records(d, n) == {Record(d, i) : i \in 0..(n - 1)}

\* C14: a record's id is its document and chunk index, so the index never
\* holds two records of one id and never loses a record; a storeVectors that
\* has returned leaves one record per chunk, and a storeVectors over an index
\* that holds the records of its chunks already leaves the index as it is,
\* in every step it takes.
C14_UpsertIdempotent ==
    /\ [](/\ Cardinality({r.id : r \in index}) = Cardinality(index)
          /\ \A r \in index : r.id = <<r.metadata.documentId, r.metadata.chunkIndex>>
          /\ \A d \in DOMAIN ing :
                (ing[d].pc = "done" /\ ing[d].raised = <<>>)
                    => /\ Records(d, ing[d].chunkCount) \subseteq index
                       /\ Cardinality({r \in index :
                              /\ r.metadata.documentId = d
                              /\ r.metadata.chunkIndex < ing[d].chunkCount})
                             = ing[d].chunkCount)
    /\ [][/\ index \subseteq index'
          /\ \A d \in DOMAIN ing' :
                (/\ IF d \in DOMAIN ing THEN ing'[d] # ing[d] ELSE TRUE
                 /\ ing'[d].batches # <<>>
                 /\ Records(d, ing'[d].chunkCount) \subseteq index)
                    => index' = index]_vars

\* C14 witness: storeVectors runs for a document whose chunks a run before
\* it has stored: its first batch is written and the index holds what it
\* held.
C14_Witness ==
    \E d \in DOMAIN ing :
        /\ ing[d].pc = "upsert" /\ ing[d].i = batchSize
        /\ Filtered(index, d) = Records(d, ing[d].chunkCount)

\* C15: the deletion of an accepted upload's temporary file is requested in
\* the end, once, by the handler that writes ready or failed and not before;
\* when the deletion settles, failed or not, the registry is left as it is.
C15_TempFileDeleted ==
    /\ \A d \in DocIds :
          (d \in DOMAIN ing) ~> (d \in DOMAIN ing /\ Has(ing[d].calls, "fs.unlink"))
    /\ [](\A d \in DOMAIN ing :
             /\ Count(ing[d].calls, "fs.unlink") <= 1
             /\ Has(ing[d].calls, "fs.unlink") <=> documents[d].status \in {"ready", "failed"}
             /\ Has(ing[d].calls, "fs.unlink") <=> ing[d].pc \in {"unlink", "done"})
    /\ [][\A d \in DOMAIN ing :
             (ing[d].pc = "unlink" /\ ing'[d].pc = "done") => documents' = documents]_vars

\* C15 witness: the deletion failed after a successful ingestion: the file is
\* still there and the document is ready.
C15_Witness ==
    \E d \in DOMAIN ing :
        /\ ing[d].pc = "done" /\ d \in tempFiles
        /\ documents[d].status = "ready"
        /\ documents[d].chunkCount = MaxChunks

\* C16: a ready record carries the page count the extraction reported and the
\* number of chunks that were made, which is the number of the document's
\* records in the index, and no error; a failed record carries an error and
\* no count; a processing record carries none of the three.
C16_CountsOnReady ==
    \A d \in DOMAIN documents :
        LET doc == documents[d]
        IN /\ doc.status = "ready"
                 => /\ {"pageCount", "chunkCount"} \subseteq DOMAIN doc
                    /\ "error" \notin DOMAIN doc
                    /\ doc.pageCount = ing[d].pageCount
                    /\ doc.chunkCount = ing[d].chunkCount
                    /\ \E pdf \in Pdfs : pdf.numpages = doc.pageCount /\ pdf.chunks = doc.chunkCount
                    /\ doc.chunkCount >= 1
                    /\ Cardinality(Filtered(index, d)) = doc.chunkCount
           /\ doc.status = "failed"
                 => /\ "error" \in DOMAIN doc
                    /\ doc.error # <<>>
                    /\ {"pageCount", "chunkCount"} \cap DOMAIN doc = {}
           /\ doc.status = "processing"
                 => {"pageCount", "chunkCount", "error"} \cap DOMAIN doc = {}

\* C16 witness: a document of MaxPages pages is ready with all its chunks in
\* the index, while its temporary file waits for deletion.
C16_Witness ==
    \E d \in DOMAIN documents :
        /\ documents[d].status = "ready"
        /\ documents[d].pageCount = MaxPages
        /\ documents[d].chunkCount = Cardinality(Filtered(index, d))
        /\ ing[d].pc = "unlink"

\* C17: handleQuery goes on to processQuery only for a document that is in the
\* registry and ready; a query for an unknown document is rejected with
\* DOCUMENT_NOT_FOUND and one for a failed document with DOCUMENT_FAILED, and
\* a rejected query has invoked no stage and no provider.
C17_OnlyReadyIsQueried ==
    /\ q.seen = "absent" => q.outcome = "rejected" /\ q.code = "DOCUMENT_NOT_FOUND"
    /\ q.seen = "failed" => q.outcome = "rejected" /\ q.code = "DOCUMENT_FAILED"
    /\ q.outcome = "rejected"
          => /\ q.pc = "done"
             /\ q.trace = <<>> /\ q.errs = <<>> /\ q.delays = <<>>
             /\ q.matches = -1 /\ q.context = {}
    /\ q.trace # <<>>
          => /\ q.seen = "ready"
             /\ q.documentId \in DOMAIN documents
             /\ documents[q.documentId].status = "ready"

\* C17 witness: a query was rejected for a failed document whose first batch
\* is in the index.
C17_Witness ==
    /\ q.seen = "failed" /\ q.code = "DOCUMENT_FAILED"
    /\ Filtered(index, q.documentId) # {}

\* C18: a request whose history holds more than 100 turns (101, say) is
\* rejected by validateQueryRequest with a validation error, whatever the turns
\* hold, and handleQuery is never run for it: the registry is not read and
\* processQuery is not called.  A request that was rejected by the validator
\* never reached handleQuery either.
C18_LongHistoryRejected ==
    /\ q.history > historyLimit =>
          /\ q.pc = "done"
          /\ q.outcome = "rejected"
          /\ q.code = "VALIDATION_ERROR"
    /\ q.code = "VALIDATION_ERROR" =>
          /\ q.seen = ""
          /\ q.trace = <<>>
          /\ q.thrown # <<>>

\* a request with 101 well-formed turns for a document that is ready was
\* rejected for the length of its history
C18_Witness ==
    /\ q.history = historyLimit + 1
    /\ q.documentId \in DOMAIN documents
    /\ documents[q.documentId].status = "ready"
    /\ q.thrown = <<"History is too long (maximum 100 messages)">>

\* C20: over the calls of getEmbeddings, embedText and embedTexts in one
\* process the embedding client is constructed at most once, and once there
\* is an instance no step replaces it: every later call gets that instance,
\* with the key or without.  A call made while there is no instance and the
\* key is absent throws the error that names GEMINI_API_KEY and leaves no
\* instance behind; a call made while there is no instance and the key is
\* present constructs the client, whatever calls failed before it.
C20_ConstructedOnce ==
    /\ [](/\ clients.constructed <= 1
          /\ clients.embeddingsInstance = clients.constructed)
    /\ [][/\ clients.embeddingsInstance # 0 =>
                /\ clients'.embeddingsInstance = clients.embeddingsInstance
                /\ clients'.constructed = clients.constructed
          /\ (q.pc \in {"idle", "done"} /\ q' # q /\ clients.embeddingsInstance = 0) =>
                IF "GEMINI_API_KEY" \in env
                THEN /\ clients'.embeddingsInstance = 1
                     /\ clients'.constructed = 1
                     /\ q'.thrown = <<>>
                ELSE /\ clients'.embeddingsInstance = 0
                     /\ clients'.constructed = 0
                     /\ q'.pc = "done"
                     /\ q'.outcome = "thrown"
                     /\ Includes(q'.thrown, GeminiKeyNotSet[1])]_vars

\* a call failed for the missing key and cached nothing, and the key has been
\* set since: the call that comes next is the later call with the key present
C20_Witness ==
    /\ q.outcome = "thrown"
    /\ Includes(q.thrown, GeminiKeyNotSet[1])
    /\ clients.embeddingsInstance = 0
    /\ "GEMINI_API_KEY" \in env

\* the message ends with the message of an upstream provider's error
ExposesUpstream(message) ==
    \E u \in UpstreamErrors :
        /\ Len(message) >= Len(u)
        /\ SubSeq(message, Len(message) - Len(u) + 1, Len(message)) = u

\* C21: when processQuery fails, the caller of the query endpoint gets a
\* structured failure: success=false, a code and a message, and the message
\* does not carry the upstream provider's error message.
C21_NoInternalDetail ==
    (q.pc = "done" /\ q.outcome = "thrown" /\ q.seen # "direct") =>
        /\ q.response.success = FALSE
        /\ q.response.code # ""
        /\ q.response.error # <<>>
        /\ ~ExposesUpstream(q.response.error)

\* C22: within one call of processQuery the rewrite step runs at most once,
\* also when the call makes a second attempt: transformQuery is called once
\* and, with history, its language model is invoked once.
C22_RewriteOnce ==
    /\ Count(q.trace, "transformQuery") <= 1
    /\ \A j, k \in DOMAIN q.trace :
          (/\ j < k /\ k < Len(q.trace)
           /\ q.trace[j] = "transformQuery" /\ q.trace[j + 1] = "model.invoke"
           /\ q.trace[k] = "transformQuery") => q.trace[k + 1] # "model.invoke"

\* the error is, or wraps, the error of a getter that found its variable unset
IsConfigurationError(error) ==
    \/ Includes(error, GeminiKeyNotSet[1])
    \/ Includes(error, PineconeKeyNotSet[1])
    \/ Includes(error, IndexNameNotSet[1])

\* C23: a configuration error raised in any stage of processQuery, the
\* generate stage included, is never retried: the call that caught one has
\* made one attempt, set no timer, and has thrown it.
C23_ConfigErrorNotRetried ==
    (\E k \in DOMAIN q.errs : IsConfigurationError(q.errs[k]))
        => /\ Len(q.errs) = 1
           /\ Count(q.trace, "attempt") = 1
           /\ q.delays = <<>>
           /\ q.pc = "done" /\ q.outcome = "thrown" /\ q.thrown = q.errs[1]

\* the inputs of a call of storeVectors that it must refuse
BadStoreInputs(st) == st.chunkCount = 0 \/ st.vectors = 0 \/ st.chunkCount # st.vectors

\* C24: a call of storeVectors with no chunks, no vectors or unequal numbers
\* of them ends at once with an error that names the fault, has sent no batch
\* to index.upsert, and the step that makes the call (the one that changes the
\* record of the call for d) leaves the index as it was.
C24_BadInputsStoreNothing ==
    /\ [](\A d \in DOMAIN ing :
             (ing[d].caller = "direct" /\ BadStoreInputs(ing[d]))
                 => /\ ing[d].pc = "done"
                    /\ ing[d].batches = <<>>
                    /\ ~Has(ing[d].calls, "index.upsert")
                    /\ ing[d].raised =
                          Wrap(FailedToStore,
                               IF ing[d].chunkCount = 0 THEN NoChunksProvided
                               ELSE IF ing[d].vectors = 0 THEN NoVectorsProvided
                               ELSE CountMismatch))
    /\ [][\A d \in DOMAIN ing' :
             (/\ ing'[d].caller = "direct" /\ BadStoreInputs(ing'[d])
              /\ IF d \in DOMAIN ing THEN ing[d].pc = "done" /\ ing'[d] # ing[d] ELSE TRUE)
                 => index' = index]_vars

\* the index holds the records of an earlier call, and a call with one chunk
\* and more vectors than that was refused
C24_Witness ==
    \E d \in DOMAIN ing :
        /\ ing[d].caller = "direct"
        /\ ing[d].chunkCount = 1 /\ ing[d].vectors > 1
        /\ ing[d].raised = Wrap(FailedToStore, CountMismatch)
        /\ Records(d, 1) \subseteq index

\* C25: no step of a query (handleQuery with processQuery) or of getDocument
\* creates, changes or removes a registry record.  A record is created by
\* uploadDocument, and every later write to the record of d is made by the
\* step that settles d's own ingestion, the one that runs its .then or .catch
\* handler; no record is removed.
C25_RegistryReadOnly ==
    [][/\ q' # q => documents' = documents
       /\ DOMAIN documents \subseteq DOMAIN documents'
       /\ \A d \in DOMAIN documents' \ DOMAIN documents :
             /\ documents'[d] = InitialMetadata(d)
             /\ d \notin DOMAIN ing /\ ing'[d] = NewIngestion
       /\ \A d \in DOMAIN documents :
             documents'[d] # documents[d]
                 => /\ ing[d].caller = "uploadDocument"
                    /\ ing[d].pc \notin {"unlink", "done"}
                    /\ ing'[d].pc = "unlink"
                    /\ \A e \in DOMAIN documents \ {d} : documents'[e] = documents[e]]_vars

\* a GET request was answered with the record of a failed document, and the
\* registry still holds that record with its filePath
C25_Witness ==
    /\ q.trace = <<"getDocument">>
    /\ q.outcome = "returned"
    /\ q.documentId \in DOMAIN documents
    /\ documents[q.documentId].status = "failed"
    /\ "filePath" \in DOMAIN documents[q.documentId]
    /\ "filePath" \notin DOMAIN q.response.document
    /\ q.response.document.status = "failed"

\* the calls that processDocument awaits one after another
Awaiting == {"stat", "import", "readFile", "pdfParse", "embedDocuments", "upsert"}

\* C26: every accepted upload's document leaves the processing state in the
\* end, each awaited call returning or failing in the end: it becomes ready
\* or failed.  While it is processing its ingestion awaits one of its calls,
\* and once the ingestion has settled the document is not processing: no
\* path drops the ingestion and leaves the document behind.
C26_LeavesProcessing ==
    /\ \A d \in DocIds :
          (d \in DOMAIN documents /\ documents[d].status = "processing")
              ~> (d \in DOMAIN documents /\ documents[d].status \in {"ready", "failed"})
    /\ [](\A d \in DOMAIN documents :
             /\ d \in DOMAIN ing
             /\ documents[d].status = "processing" <=> ing[d].pc \in Awaiting)

\* an ingestion got as far as the embedding of its chunks, which failed, and
\* its document is failed
C26_Witness ==
    \E d \in DOMAIN documents :
        /\ documents[d].status = "failed"
        /\ ing[d].calls[Len(ing[d].calls)] = "fs.unlink"
        /\ ing[d].calls[Len(ing[d].calls) - 1] = "embedDocuments"
        /\ ing[d].raised # <<>>

\* the records of the index that are not those of document d
Others(idx, d) == {r \in idx : r.metadata.documentId # d}

\* C27: a step of the ingestion of document a, its failure and its partial
\* writes to the index included, leaves every other document as it was: the
\* registry keeps its documents, the record, the ingestion and the index
\* records of every other document b are unchanged, and every record added to
\* or replaced in the index is one of a.
C27_DocumentsIndependent ==
    [][\A a \in DOMAIN ing :
          ing'[a] # ing[a]
              => /\ DOMAIN documents' = DOMAIN documents
                 /\ \A b \in DOMAIN documents \ {a} :
                       /\ documents'[b] = documents[b]
                       /\ ing'[b] = ing[b]
                 /\ Others(index', a) = Others(index, a)]_vars

\* two documents were ingested side by side: one failed after its first
\* batch, whose records the index holds, and the other is ready with all of
\* its records in the index
C27_Witness ==
    \E a, b \in DOMAIN documents :
        /\ a # b
        /\ documents[a].status = "failed"
        /\ Filtered(index, a) = Records(a, batchSize)
        /\ documents[b].status = "ready"
        /\ Filtered(index, b) = Records(b, MaxChunks)

\* C28: a query that came through handleQuery for document d and has sent
\* index.query found d ready, and from then on the index holds every one of
\* d's chunkCount records and d's ingestion has written its last batch: the
\* search never runs on a document whose batches are still being written, nor
\* on the partial records of a failed one.
C28_NoPartialSearch ==
    (q.seen \notin {"", "direct"} /\ Has(q.trace, "index.query"))
        => LET d == q.documentId
           IN /\ q.seen = "ready"
              /\ d \in DOMAIN documents
              /\ documents[d].status = "ready"
              /\ ing[d].pc \in {"unlink", "done"}
              /\ Len(ing[d].batches) = BatchCount(documents[d].chunkCount)
              /\ Filtered(index, d) = Records(d, documents[d].chunkCount)

\* the index was searched for a document of more than MaxBatches batches
C28_Witness ==
    /\ q.seen = "ready"
    /\ Has(q.trace, "index.query")
    /\ documents[q.documentId].chunkCount = MaxChunks
    /\ q.matches = topK

\* C29: while a document is processing its temporary file is on disk and no
\* deletion of it has been requested; the file of a document goes away only in
\* the step that settles the fs.unlink of its completion handler, when the
\* document is ready or failed already.  A rejected upload, whose error came
\* before any pipeline was started, takes no document's file away.
C29_FileKeptWhileProcessing ==
    /\ [](\A d \in DOMAIN documents :
             documents[d].status = "processing"
                 => /\ d \in tempFiles
                    /\ ing[d].calls[Len(ing[d].calls)] # "fs.unlink")
    /\ [][\A d \in tempFiles :
             d \notin tempFiles'
                 => /\ documents[d].status \in {"ready", "failed"}
                    /\ ing[d].pc = "unlink" /\ ing'[d].pc = "done"]_vars

\* a document is processing, its second batch on the way to the index, and
\* its file is on disk
C29_Witness ==
    \E d \in tempFiles :
        /\ documents[d].status = "processing"
        /\ ing[d].pc = "upsert" /\ ing[d].i = batchSize

====
